---- MODULE Spec2Model ----
(***************************************************************************)
(* The ATM state machine of final-project/state-machine-atm/src/atm.rs.   *)
(*                                                                         *)
(* The machine is the pure function Atm::next_state(starting_state, t).    *)
(* The model keeps the Atm value the caller holds (cash_inside,            *)
(* expected_pin_hash, keystroke_register), replaces it by the result of    *)
(* next_state at every step, and remembers the call that produced it       *)
(* (starting_state, t) so that properties of single calls can be read off  *)
(* the state.                                                              *)
(*                                                                         *)
(* u64 values.  cash_inside is a u64.  A value v < 2^63 is written v; a    *)
(* value v >= 2^63 is written as the negative integer v - 2^64 (the same   *)
(* 64 bits read as a signed number), so 2^64 - 1 is written -1.  With this *)
(* reading wrapping subtraction is integer subtraction, and the unsigned   *)
(* order is U64Less below.  The values the model reaches lie within        *)
(* MaxCash of 0 or within MaxWrapped of 2^64.                              *)
(*                                                                         *)
(* Digests.  hash() is crate::traits::hash, which is not part of the       *)
(* source at hand.  It is modelled as a perfect hash: the digest of a      *)
(* value is the value tagged with its Rust type, so two digests are equal  *)
(* exactly when they are digests of the same value of the same type.       *)
(***************************************************************************)
EXTENDS Integers, Sequences, FiniteSets, TLC

VARIABLES
    cash_inside,          \* Atm.cash_inside of the current state
    expected_pin_hash,    \* Atm.expected_pin_hash of the current state (an Auth)
    keystroke_register,   \* Atm.keystroke_register of the current state
    starting_state,       \* the Atm the last call of next_state was given
    t,                    \* the Action the last call of next_state was given
    overflow_checks,      \* build profile: TRUE = overflow checks on (debug)
    panicked              \* the last call of next_state panicked

vars == <<cash_inside, expected_pin_hash, keystroke_register,
          starting_state, t, overflow_checks, panicked>>

\* ---------------------------------------------------------------- bounds
MaxLen == 4       \* longest keystroke_register the model holds
MaxCash == 15     \* largest initial cash_inside
MaxWrapped == 1   \* how far below 2^64 a wrapped cash_inside is followed

\* ---------------------------------------------------------------- data
Key == {"One", "Two", "Three", "Four", "Enter"}

Digits == Key \ {"Enter"}

\* impl Display for Key: the characters written for one key
KeyToString(key) ==
    CASE key = "One" -> <<"1">>
      [] key = "Two" -> <<"2">>
      [] key = "Three" -> <<"3">>
      [] key = "Four" -> <<"4">>
      [] key = "Enter" -> <<"E", "n", "t", "e", "r">>

\* new_keystroke_register.iter().map(|k| k.to_string()).collect::<String>()
RECURSIVE PinString(_)
PinString(register) ==
    IF register = <<>> THEN <<>>
    ELSE KeyToString(Head(register)) \o PinString(Tail(register))

\* crate::traits::hash::<T>(&value): a perfect hash of a value of type T
hash(type, value) == [type |-> type, preimage |-> value]

\* a u64 that is the digest of no value the model hashes (1234 in the tests)
NoPreimageDigest == [type |-> "u64", preimage |-> <<"1234">>]

\* enum Auth
Waiting == [tag |-> "Waiting"]
Authenticating(pin_hash) == [tag |-> "Authenticating", pin_hash |-> pin_hash]
Authenticated == [tag |-> "Authenticated"]

\* enum Action
SwipeCard(pin_hash) == <<"SwipeCard", pin_hash>>
PressKey(key) == <<"PressKey", key>>
NoAction == <<"None", "None">>

\* struct Atm
Atm(cash, auth, register) ==
    [cash_inside |-> cash, expected_pin_hash |-> auth, keystroke_register |-> register]

\* the unsigned order of two u64 values in the signed reading
U64Less(a, b) == IF (a < 0) = (b < 0) THEN a < b ELSE b < 0

U64LessEq(a, b) == a = b \/ U64Less(a, b)

\* a - b on u64: the difference, and whether it left the u64 range
U64Sub(a, b) == [value |-> a - b, overflow |-> U64Less(a, b)]

\* what a call of next_state produces: a new Atm, or a panic
Returned(atm) == [panic |-> FALSE, atm |-> atm]
Panic(atm) == [panic |-> TRUE, atm |-> atm]

\* Atm { cash_inside: cash_inside - amount, .. }: the subtraction panics on
\* overflow when overflow checks are compiled in, and wraps otherwise
Debit(state, amount, auth, register) ==
    IF U64Sub(state.cash_inside, amount).overflow /\ overflow_checks
    THEN Panic(state)
    ELSE Returned(Atm(U64Sub(state.cash_inside, amount).value, auth, register))

\* ---------------------------------------------------------------- next_state
\* SwipeCardRetain with the register cleared as for a first swipe
SwipeCardRetainClears(state, pin_hash) ==
    Returned(Atm(state.cash_inside, Authenticating(pin_hash), <<>>))

\* SwipeCardRetain with a second swipe taken as the card being withdrawn
SwipeCardRetainEjects(state, pin_hash) ==
    Returned(Atm(state.cash_inside, Waiting, <<>>))

\* Action::SwipeCard while Authenticating: retain existing keystrokes
SwipeCardRetain(state, pin_hash) ==
    Returned(Atm(state.cash_inside, Authenticating(pin_hash), state.keystroke_register))

\* SwipeCardReset with the register cloned as for a repeated swipe
SwipeCardResetKeeps(state, pin_hash) ==
    Returned(Atm(state.cash_inside, Authenticating(pin_hash), state.keystroke_register))

\* Action::SwipeCard otherwise: reset keystroke_register
SwipeCardReset(state, pin_hash) ==
    Returned(Atm(state.cash_inside, Authenticating(pin_hash), <<>>))

\* PressKeyWaiting with the key pushed onto the register as in the other phases
PressKeyWaitingStoresKey(state, key) ==
    Returned(Atm(state.cash_inside, Waiting, Append(state.keystroke_register, key)))

\* Action::PressKey while Auth::Waiting: ignore the key press
PressKeyWaiting(state, key) ==
    Returned(Atm(state.cash_inside, Waiting, <<>>))

\* PressKeyAuthenticating with the register before the push kept for a digit
PressKeyAuthenticatingDropsKey(state, pin_hash, key) ==
    LET new_keystroke_register == Append(state.keystroke_register, key)
        pin_string == PinString(new_keystroke_register)
        new_pin_hash == hash("String", pin_string)
    IN  IF new_keystroke_register = <<"One", "Two", "Three", "Four", "Enter">>
        THEN Returned(Atm(state.cash_inside, Authenticated, <<>>))
        ELSE IF key = "Enter" /\ new_pin_hash = pin_hash
        THEN Debit(state, 1, Waiting, <<>>)
        ELSE IF key = "Enter"
        THEN Returned(Atm(state.cash_inside, Waiting, <<>>))
        ELSE Returned(Atm(state.cash_inside, Authenticating(pin_hash),
                          state.keystroke_register))

\* PressKeyAuthenticating with the digest of the typed keys stored in the phase
PressKeyAuthenticatingStoresTypedHash(state, pin_hash, key) ==
    LET new_keystroke_register == Append(state.keystroke_register, key)
        pin_string == PinString(new_keystroke_register)
        new_pin_hash == hash("String", pin_string)
    IN  IF new_keystroke_register = <<"One", "Two", "Three", "Four", "Enter">>
        THEN Returned(Atm(state.cash_inside, Authenticated, <<>>))
        ELSE IF key = "Enter" /\ new_pin_hash = pin_hash
        THEN Debit(state, 1, Waiting, <<>>)
        ELSE IF key = "Enter"
        THEN Returned(Atm(state.cash_inside, Waiting, <<>>))
        ELSE Returned(Atm(state.cash_inside, Authenticating(new_pin_hash),
                          new_keystroke_register))

\* PressKeyAuthenticating with the PIN accepted at its fourth digit, before Enter
PressKeyAuthenticatingOnFourthDigit(state, pin_hash, key) ==
    LET new_keystroke_register == Append(state.keystroke_register, key)
        pin_string == PinString(new_keystroke_register)
        new_pin_hash == hash("String", pin_string)
    IN  IF new_keystroke_register = <<"One", "Two", "Three", "Four">>
        THEN Returned(Atm(state.cash_inside, Authenticated, <<>>))
        ELSE IF key = "Enter" /\ new_pin_hash = pin_hash
        THEN Debit(state, 1, Waiting, <<>>)
        ELSE IF key = "Enter"
        THEN Returned(Atm(state.cash_inside, Waiting, <<>>))
        ELSE Returned(Atm(state.cash_inside, Authenticating(pin_hash),
                          new_keystroke_register))

\* Action::PressKey while Auth::Authenticating(pin_hash)
PressKeyAuthenticating(state, pin_hash, key) ==
    LET new_keystroke_register == Append(state.keystroke_register, key)
        pin_string == PinString(new_keystroke_register)
        new_pin_hash == hash("String", pin_string)
    IN  IF new_keystroke_register = <<"One", "Two", "Three", "Four", "Enter">>
        THEN Returned(Atm(state.cash_inside, Authenticated, <<>>))
        ELSE IF key = "Enter" /\ new_pin_hash = pin_hash
        THEN Debit(state, 1, Waiting, <<>>)
        ELSE IF key = "Enter"
        THEN Returned(Atm(state.cash_inside, Waiting, <<>>))
        ELSE Returned(Atm(state.cash_inside, Authenticating(pin_hash),
                          new_keystroke_register))

\* PressKeyAuthenticated with the register before the push kept for a digit
PressKeyAuthenticatedDropsKey(state, key) ==
    LET new_keystroke_register == Append(state.keystroke_register, key)
        withdrawal_amount == <<"One", "Four", "Enter">>
    IN  IF new_keystroke_register = withdrawal_amount
        THEN IF ~U64Less(state.cash_inside, 14)
             THEN Debit(state, 14, Waiting, <<>>)
             ELSE Returned(Atm(state.cash_inside, Waiting, <<>>))
        ELSE IF key = "Enter"
        THEN Returned(Atm(state.cash_inside, Authenticated, new_keystroke_register))
        ELSE Returned(Atm(state.cash_inside, Authenticated, state.keystroke_register))

\* Action::PressKey while Auth::Authenticated
PressKeyAuthenticated(state, key) ==
    LET new_keystroke_register == Append(state.keystroke_register, key)
        withdrawal_amount == <<"One", "Four", "Enter">>
    IN  IF new_keystroke_register = withdrawal_amount
        THEN IF ~U64Less(state.cash_inside, 14)
             THEN Debit(state, 14, Waiting, <<>>)
             ELSE Returned(Atm(state.cash_inside, Waiting, <<>>))
        ELSE Returned(Atm(state.cash_inside, Authenticated, new_keystroke_register))

\* Atm::next_state(starting_state, t)
next_state(state, action) ==
    IF action[1] = "SwipeCard"
    THEN IF state.expected_pin_hash.tag = "Authenticating"
         THEN SwipeCardRetain(state, action[2])
         ELSE SwipeCardReset(state, action[2])
    ELSE CASE state.expected_pin_hash.tag = "Waiting" ->
                PressKeyWaiting(state, action[2])
           [] state.expected_pin_hash.tag = "Authenticating" ->
                PressKeyAuthenticating(state, state.expected_pin_hash.pin_hash, action[2])
           [] state.expected_pin_hash.tag = "Authenticated" ->
                PressKeyAuthenticated(state, action[2])

\* ---------------------------------------------------------------- inputs
\* the digests SwipeCard presents: of two PINs as the tests compute them
\* (hash(&Vec<Key>)), of the string next_state builds for the keys One, Enter,
\* and a u64 that is the digest of nothing
Digests ==
    { hash("Vec<Key>", <<"One">>),
      hash("Vec<Key>", <<"One", "Two", "Three", "Four">>),
      hash("String", PinString(<<"One", "Enter">>)),
      NoPreimageDigest }

\* the initial floats: empty, one unit, the tests' 10, and around the amount 14
InitialCash == {0, 1, 10, 13, 14, MaxCash}

Auths == {Waiting, Authenticated} \cup {Authenticating(d) : d \in Digests}

RECURSIVE SeqsUpTo(_, _)
SeqsUpTo(S, n) ==
    IF n = 0 THEN {<<>>}
    ELSE LET shorter == SeqsUpTo(S, n - 1)
         IN  shorter \cup {Append(r, k) : r \in {x \in shorter : Len(x) = n - 1}, k \in S}

Registers == SeqsUpTo(Key, MaxLen)

\* the values kept: cash within MaxWrapped of 2^64 once wrapped, registers up to MaxLen
InBounds(atm) ==
    /\ atm.cash_inside >= -MaxWrapped
    /\ Len(atm.keystroke_register) <= MaxLen

\* ---------------------------------------------------------------- the machine
Current == Atm(cash_inside, expected_pin_hash, keystroke_register)

\* the caller's loop, a card swipe: state = Atm::next_state(&state, &SwipeCard(pin_hash))
Swipe ==
    \E pin_hash \in Digests :
        LET result == next_state(Current, SwipeCard(pin_hash))
        IN  /\ ~panicked
            /\ InBounds(result.atm)
            /\ cash_inside' = result.atm.cash_inside
            /\ expected_pin_hash' = result.atm.expected_pin_hash
            /\ keystroke_register' = result.atm.keystroke_register
            /\ panicked' = result.panic
            /\ starting_state' = Current
            /\ t' = SwipeCard(pin_hash)
            /\ UNCHANGED overflow_checks

\* the caller's loop, a key press: state = Atm::next_state(&state, &PressKey(key))
Press ==
    \E key \in Key :
        LET result == next_state(Current, PressKey(key))
        IN  /\ ~panicked
            /\ InBounds(result.atm)
            /\ cash_inside' = result.atm.cash_inside
            /\ expected_pin_hash' = result.atm.expected_pin_hash
            /\ keystroke_register' = result.atm.keystroke_register
            /\ panicked' = result.panic
            /\ starting_state' = Current
            /\ t' = PressKey(key)
            /\ UNCHANGED overflow_checks

\* a machine created with phase Waiting, an initial float and an empty register
Init ==
    /\ cash_inside \in InitialCash
    /\ expected_pin_hash = Waiting
    /\ keystroke_register = <<>>
    /\ starting_state = Current
    /\ t = NoAction
    /\ overflow_checks \in BOOLEAN
    /\ panicked = FALSE

\* next_state applied to any Atm value whatever
InitAny ==
    /\ cash_inside \in InitialCash
    /\ expected_pin_hash \in Auths
    /\ keystroke_register \in Registers
    /\ starting_state = Current
    /\ t = NoAction
    /\ overflow_checks \in BOOLEAN
    /\ panicked = FALSE

Next == Swipe \/ Press

Spec == Init /\ [][Next]_vars

SpecAny == InitAny /\ [][Next]_vars

TypeOK ==
    /\ cash_inside \in -MaxWrapped..MaxCash
    /\ expected_pin_hash \in Auths
    /\ keystroke_register \in Registers
    /\ panicked \in BOOLEAN

\* ---------------------------------------------------------------- reading a call
\* the state is the outcome of a call of next_state
Called == t # NoAction

CalledSwipeCard == t[1] = "SwipeCard"

CalledPressKey == t[1] = "PressKey"

CalledPressEnter == t[1] = "PressKey" /\ t[2] = "Enter"

CalledPressDigit == t[1] = "PressKey" /\ t[2] # "Enter"

StartedIn(tag) == starting_state.expected_pin_hash.tag = tag

\* the call returned exactly this Atm
ReturnedExactly(atm) == ~panicked /\ Current = atm

OnlyDigits(register) == \A i \in 1..Len(register) : register[i] \in Digits

DigitValue(key) ==
    CASE key = "One" -> 1
      [] key = "Two" -> 2
      [] key = "Three" -> 3
      [] key = "Four" -> 4

\* the withdrawal amount parser of the specification (section 4.2): base 10,
\* most significant digit first, an Enter ends the scan
RECURSIVE ParseFrom(_, _)
ParseFrom(acc, register) ==
    IF register = <<>> \/ Head(register) = "Enter" THEN acc
    ELSE ParseFrom(acc * 10 + DigitValue(Head(register)), Tail(register))

DecimalValue(register) == ParseFrom(0, register)

\* ---------------------------------------------------------------- claims
\* C1: Correct PIN authenticates.  Whenever Enter is pressed in phase
\* Authenticating(d) with a register b of non-Enter keys whose digest
\* Hash(b) is d, the result is exactly {Authenticated, C, []}.
CorrectPinAuthenticates ==
    ( /\ CalledPressEnter
      /\ StartedIn("Authenticating")
      /\ OnlyDigits(starting_state.keystroke_register)
      /\ hash("Vec<Key>", starting_state.keystroke_register)
            = starting_state.expected_pin_hash.pin_hash )
    => ReturnedExactly(Atm(starting_state.cash_inside, Authenticated, <<>>))

\* C2: Incorrect PIN resets the session.  Whenever Enter is pressed in phase
\* Authenticating(d) with a register b whose digest Hash(b) is not d, the
\* result is exactly {Waiting, C, []}.
IncorrectPinResets ==
    ( /\ CalledPressEnter
      /\ StartedIn("Authenticating")
      /\ hash("Vec<Key>", starting_state.keystroke_register)
            # starting_state.expected_pin_hash.pin_hash )
    => ReturnedExactly(Atm(starting_state.cash_inside, Waiting, <<>>))

\* C3: Successful withdrawal.  Whenever Enter is pressed in phase
\* Authenticated with a register of digit keys whose decimal value A is at
\* most the cash C, the result is exactly {Waiting, C - A, []}.
WithdrawalWithinFunds ==
    ( /\ CalledPressEnter
      /\ StartedIn("Authenticated")
      /\ OnlyDigits(starting_state.keystroke_register)
      /\ U64LessEq(DecimalValue(starting_state.keystroke_register),
                   starting_state.cash_inside) )
    => ReturnedExactly(Atm(starting_state.cash_inside
                             - DecimalValue(starting_state.keystroke_register),
                           Waiting, <<>>))

\* C4: Rejected withdrawal.  Whenever Enter is pressed in phase Authenticated
\* with a register of digit keys whose decimal value A exceeds the cash C, the
\* result is exactly {Waiting, C, []}.
WithdrawalBeyondFunds ==
    ( /\ CalledPressEnter
      /\ StartedIn("Authenticated")
      /\ OnlyDigits(starting_state.keystroke_register)
      /\ U64Less(starting_state.cash_inside,
                 DecimalValue(starting_state.keystroke_register)) )
    => ReturnedExactly(Atm(starting_state.cash_inside, Waiting, <<>>))

\* C5: cash_inside never goes negative and never increases.  After every call
\* the cash is at most (as a u64) the cash the call was given, and no
\* subtraction of the call left the u64 range.
CashNeverIncreases ==
    Called =>
        /\ U64LessEq(cash_inside, starting_state.cash_inside)
        /\ ~panicked

\* C6: next_state is total.  No call of next_state, on any state and any
\* event, aborts instead of returning a successor state.
NextStateTotal == ~panicked

\* C7: Re-swipe preserves progress.  Whenever a card is swiped in phase
\* Authenticating(d0), the result is {Authenticating(d), C, b}: register and
\* cash as they were, the digest replaced by the swiped one.
ReSwipePreservesProgress ==
    (CalledSwipeCard /\ StartedIn("Authenticating"))
    => ReturnedExactly(Atm(starting_state.cash_inside, Authenticating(t[2]),
                           starting_state.keystroke_register))

\* C7 witness: a card with another digest was swiped over a non-empty register
ReSwipeHappened ==
    /\ CalledSwipeCard
    /\ StartedIn("Authenticating")
    /\ starting_state.expected_pin_hash.pin_hash # t[2]
    /\ Len(starting_state.keystroke_register) >= 2
    /\ expected_pin_hash = Authenticating(t[2])

\* C8: Fresh session on swipe.  Whenever a card is swiped in phase Waiting or
\* Authenticated, whatever the register holds, the result is
\* {Authenticating(d), C, []}.
FreshSessionOnSwipe ==
    (CalledSwipeCard /\ (StartedIn("Waiting") \/ StartedIn("Authenticated")))
    => ReturnedExactly(Atm(starting_state.cash_inside, Authenticating(t[2]), <<>>))

\* C8 witness: a card was swiped in phase Authenticated over a non-empty register
FreshSwipeHappened ==
    /\ CalledSwipeCard
    /\ StartedIn("Authenticated")
    /\ starting_state.keystroke_register # <<>>
    /\ keystroke_register = <<>>

\* C9: Key presses before a swipe are no-ops.  Whenever any key, Enter
\* included, is pressed in the state {Waiting, C, []}, the result is that state.
KeyBeforeSwipeIsNoOp ==
    ( /\ CalledPressKey
      /\ StartedIn("Waiting")
      /\ starting_state.keystroke_register = <<>> )
    => ReturnedExactly(starting_state)

\* C9 witness: Enter was pressed in {Waiting, C, []} with C positive
KeyBeforeSwipeHappened ==
    /\ CalledPressEnter
    /\ starting_state = Atm(cash_inside, Waiting, <<>>)
    /\ cash_inside > 0

\* C10: PIN digit entry.  Whenever a key other than Enter is pressed in phase
\* Authenticating(d), the result is {Authenticating(d), C, b followed by the key}.
PinDigitAppended ==
    (CalledPressDigit /\ StartedIn("Authenticating"))
    => ReturnedExactly(Atm(starting_state.cash_inside,
                           starting_state.expected_pin_hash,
                           Append(starting_state.keystroke_register, t[2])))

\* C10 witness: a digit was pressed in phase Authenticating after a different one
PinDigitHappened ==
    /\ CalledPressDigit
    /\ StartedIn("Authenticating")
    /\ starting_state.keystroke_register # <<>>
    /\ Head(starting_state.keystroke_register) # t[2]
    /\ Len(keystroke_register) = Len(starting_state.keystroke_register) + 1

\* C11: Withdrawal digit entry.  Whenever a key other than Enter is pressed in
\* phase Authenticated, the result is {Authenticated, C, b followed by the key}.
AmountDigitAppended ==
    (CalledPressDigit /\ StartedIn("Authenticated"))
    => ReturnedExactly(Atm(starting_state.cash_inside, Authenticated,
                           Append(starting_state.keystroke_register, t[2])))

\* C11 witness: a digit was pressed in phase Authenticated after a different one
AmountDigitHappened ==
    /\ CalledPressDigit
    /\ StartedIn("Authenticated")
    /\ starting_state.keystroke_register # <<>>
    /\ Head(starting_state.keystroke_register) # t[2]
    /\ Len(keystroke_register) = Len(starting_state.keystroke_register) + 1

\* C12: Buffer/phase invariant.  In every state reached from {Waiting, C, []}
\* the register is empty whenever the phase is Waiting, and every call that
\* changes the phase variant returns an empty register.
RegisterEmptyOnPhaseChange ==
    /\ expected_pin_hash = Waiting => keystroke_register = <<>>
    /\ (Called /\ ~StartedIn(expected_pin_hash.tag)) => keystroke_register = <<>>

\* C12 witness: a call given a non-empty register changed the phase variant
PhaseChangedOverRegister ==
    /\ Called
    /\ ~StartedIn(expected_pin_hash.tag)
    /\ starting_state.keystroke_register # <<>>
    /\ StartedIn("Authenticated")
    /\ keystroke_register = <<>>

\* C13: The withdrawal amount is the decimal value of the register.  Whenever
\* Enter is pressed in phase Authenticated with a register of digit keys, the
\* session ends in Waiting and the cash debited is the base-10 value of the
\* register read most significant digit first when the cash covers it, and
\* nothing otherwise (so Enter on an empty register debits 0).
WithdrawalAmountIsDecimalValue ==
    ( /\ CalledPressEnter
      /\ StartedIn("Authenticated")
      /\ OnlyDigits(starting_state.keystroke_register) )
    => /\ ~panicked
       /\ expected_pin_hash = Waiting
       /\ starting_state.cash_inside - cash_inside
            = IF U64LessEq(DecimalValue(starting_state.keystroke_register),
                           starting_state.cash_inside)
              THEN DecimalValue(starting_state.keystroke_register)
              ELSE 0

\* C14: Digest integrity.  In every run from {Waiting, C, []}, a state in phase
\* Authenticating(d) is the result either of SwipeCard(d) or of a key press
\* made in phase Authenticating(d): the digest is the one of the most recent
\* swipe, and no key press changes it.
DigestIsLastSwiped ==
    expected_pin_hash.tag = "Authenticating" =>
        \/ t = SwipeCard(expected_pin_hash.pin_hash)
        \/ CalledPressKey /\ starting_state.expected_pin_hash = expected_pin_hash

\* C14 witness: a second digit was typed after a swipe and the phase still
\* carries the swiped digest, which is not the digest of the typed keys
DigestKeptWhileTyping ==
    /\ CalledPressDigit
    /\ StartedIn("Authenticating")
    /\ starting_state.keystroke_register # <<>>
    /\ expected_pin_hash = starting_state.expected_pin_hash
    /\ expected_pin_hash.pin_hash # hash("String", PinString(keystroke_register))
    /\ expected_pin_hash.pin_hash # hash("Vec<Key>", keystroke_register)

\* C15: cash_inside changes only through a withdrawal.  A call that returns a
\* cash different from the one it was given is PressKey(Enter) made in phase
\* Authenticated; SwipeCard and every key in phase Waiting or Authenticating
\* leave the cash as it was.
CashChangesOnlyByWithdrawal ==
    (Called /\ cash_inside # starting_state.cash_inside)
    => (CalledPressEnter /\ StartedIn("Authenticated"))

\* C16: The register never holds Enter.  In every state reached from
\* {Waiting, C, []} every element of the register is One, Two, Three or Four.
RegisterHoldsOnlyDigits == OnlyDigits(keystroke_register)

\* C17: Swipe is idempotent.  For every state s and digest d, the state
\* next_state(s, SwipeCard(d)) is left as it is by a second SwipeCard(d).
SwipeIdempotent ==
    (CalledSwipeCard /\ ~panicked) => next_state(Current, t) = Returned(Current)

\* C17 witness: the card already being authenticated was swiped again over a
\* non-empty register, and the state is the one the first swipe left
SameCardSwipedAgain ==
    /\ CalledSwipeCard
    /\ starting_state.expected_pin_hash = Authenticating(t[2])
    /\ Len(starting_state.keystroke_register) = MaxLen
    /\ Current = starting_state

\* C18: Phase ordering.  In every run from {Waiting, C, []}, a state in phase
\* Authenticated is the result of a key press, made either in phase
\* Authenticated or, as Enter, in phase Authenticating: Authenticated is never
\* entered from Waiting, by SwipeCard or by a key other than Enter.
AuthenticatedOnlyByEnter ==
    expected_pin_hash = Authenticated =>
        /\ CalledPressKey
        /\ \/ StartedIn("Authenticated")
           \/ StartedIn("Authenticating") /\ t[2] = "Enter"

\* C18 witness: Enter pressed in phase Authenticating entered Authenticated
AuthenticatedEntered ==
    /\ expected_pin_hash = Authenticated
    /\ CalledPressEnter
    /\ StartedIn("Authenticating")
    /\ starting_state.keystroke_register = <<"One", "Two", "Three", "Four">>
====
